---------------------------- MODULE Spec2Model ----------------------------
(***************************************************************************)
(* Transaction envelope codec of ethereum/cancun/transactions.py.          *)
(*                                                                         *)
(* The four transaction records, encode_transaction and decode_transaction *)
(* are translated from transactions.py.  The collaborators it imports      *)
(* (the rlp codec, the numeric and byte types of base_types, the exception *)
(* classes) are modelled from their description in the specification.      *)
(*                                                                         *)
(* Representation of Python values:                                        *)
(*   bytes          a sequence over 0..255                                 *)
(*   Uint/U64/U256  the little-endian base-256 limbs of the number, with   *)
(*                  no most-significant zero limb (arbitrary precision)    *)
(*   tuple          a sequence                                             *)
(*   object         a record whose field "type" names its class            *)
(***************************************************************************)
EXTENDS Integers, Sequences, FiniteSets, TLC

VARIABLES pc, tx, enc, arg, via, dec

vars == <<pc, tx, enc, arg, via, dec>>

(***************************************************************************)
(* Bounds of the model.                                                    *)
(***************************************************************************)
\* longest `data` byte string a constructed transaction carries
MaxData == 1
\* most storage keys in an access-list entry
MaxKeys == 1
\* longest raw byte string handed to decode_transaction by the environment
MaxRaw == 2

(***************************************************************************)
(* base_types: numbers and byte strings.                                   *)
(***************************************************************************)
Reverse(s) == [i \in 1..Len(s) |-> s[Len(s) + 1 - i]]

RECURSIVE Limbs(_)
\* the number n as a Uint value
Limbs(n) == IF n = 0 THEN <<>> ELSE <<n % 256>> \o Limbs(n \div 256)

RECURSIVE BigEndian(_)
\* int.to_bytes(n, "big") in the shortest form, for a machine-size n
BigEndian(n) == IF n = 0 THEN <<>> ELSE BigEndian(n \div 256) \o <<n % 256>>

RECURSIVE BigEndianValue(_)
\* int.from_bytes(bs, "big") for a short bs
BigEndianValue(bs) ==
    IF bs = <<>> THEN 0
    ELSE 256 * BigEndianValue(SubSeq(bs, 1, Len(bs) - 1)) + bs[Len(bs)]

\* Uint.to_be_bytes: big-endian, shortest form (zero is the empty string)
to_be_bytes(x) == Reverse(x)

\* byte width of the fixed-width unsigned types; 0 stands for unbounded (Uint)
ByteWidth(ftype) ==
    CASE ftype = "U64" -> 8
      [] ftype = "U256" -> 32
      [] OTHER -> 0

\* cls.from_be_bytes behind the codec's canonical-integer rule: no leading
\* zero byte, and the value must fit the type's width
from_be_bytes(ftype, bs) ==
    IF Len(bs) > 0 /\ bs[1] = 0 THEN [ok |-> FALSE, v |-> <<>>]
    ELSE IF ByteWidth(ftype) > 0 /\ Len(bs) > ByteWidth(ftype)
         THEN [ok |-> FALSE, v |-> <<>>]
    ELSE [ok |-> TRUE, v |-> Reverse(bs)]

(***************************************************************************)
(* rlp: the structural codec.  An RLP item is a byte string or a list of   *)
(* items.                                                                  *)
(***************************************************************************)
BytesItem(b) == [k |-> "bytes", b |-> b, l |-> <<>>]
ListItem(l) == [k |-> "list", b |-> <<>>, l |-> l]

\* rlp.encode_bytes
encode_bytes(b) ==
    IF Len(b) = 1 /\ b[1] < 128 THEN b
    ELSE IF Len(b) < 56 THEN <<128 + Len(b)>> \o b
    ELSE LET ll == BigEndian(Len(b)) IN <<183 + Len(ll)>> \o ll \o b

RECURSIVE rlp_encode(_)
RECURSIVE get_joined_encodings(_)
\* rlp.get_joined_encodings: the concatenated encodings of the items
get_joined_encodings(items) ==
    IF items = <<>> THEN <<>>
    ELSE rlp_encode(Head(items)) \o get_joined_encodings(Tail(items))

\* rlp.encode_sequence
encode_sequence(items) ==
    LET joined == get_joined_encodings(items) IN
    IF Len(joined) < 56 THEN <<192 + Len(joined)>> \o joined
    ELSE LET ll == BigEndian(Len(joined)) IN <<247 + Len(ll)>> \o ll \o joined

\* rlp.encode of an item
rlp_encode(item) ==
    IF item.k = "bytes" THEN encode_bytes(item.b) ELSE encode_sequence(item.l)

DecodeFail == [ok |-> FALSE, item |-> BytesItem(<<>>), used |-> 0]
DecodeOk(item, used) == [ok |-> TRUE, item |-> item, used |-> used]

\* A long-form length field: the payload length it declares, or -1 when the
\* field is cut short, has a leading zero, declares a length the short form
\* covers, or declares more than the input holds.
LongLength(bs, ll) ==
    IF Len(bs) < 1 + ll THEN -1
    ELSE IF bs[2] = 0 THEN -1
    ELSE IF ll > 3 THEN -1
    ELSE LET n == BigEndianValue(SubSeq(bs, 2, 1 + ll)) IN
         IF n < 56 \/ Len(bs) < 1 + ll + n THEN -1 ELSE n

RECURSIVE decode_item(_)
RECURSIVE decode_joined_encodings(_)
\* rlp.decode_joined_encodings: every item of a list payload, in order
decode_joined_encodings(bs) ==
    IF bs = <<>> THEN [ok |-> TRUE, items |-> <<>>]
    ELSE LET h == decode_item(bs) IN
         IF ~h.ok THEN [ok |-> FALSE, items |-> <<>>]
         ELSE LET t == decode_joined_encodings(SubSeq(bs, h.used + 1, Len(bs))) IN
              IF ~t.ok THEN [ok |-> FALSE, items |-> <<>>]
              ELSE [ok |-> TRUE, items |-> <<h.item>> \o t.items]

\* the list item whose payload is bs[from..from+n-1]
DecodeList(bs, from, n) ==
    LET r == decode_joined_encodings(SubSeq(bs, from, from + n - 1)) IN
    IF r.ok THEN DecodeOk(ListItem(r.items), from + n - 1) ELSE DecodeFail

\* the item at the head of bs and the number of bytes it takes
\* (rlp.decode_to_bytes, rlp.decode_to_sequence, rlp.decode_item_length)
decode_item(bs) ==
    IF bs = <<>> THEN DecodeFail
    ELSE LET b0 == bs[1] IN
    IF b0 < 128 THEN DecodeOk(BytesItem(<<b0>>), 1)
    ELSE IF b0 <= 183 THEN
        LET n == b0 - 128 IN
        IF Len(bs) < 1 + n THEN DecodeFail
        ELSE IF n = 1 /\ bs[2] < 128 THEN DecodeFail
        ELSE DecodeOk(BytesItem(SubSeq(bs, 2, 1 + n)), 1 + n)
    ELSE IF b0 <= 191 THEN
        LET ll == b0 - 183
            n == LongLength(bs, ll) IN
        IF n < 0 THEN DecodeFail
        ELSE DecodeOk(BytesItem(SubSeq(bs, 2 + ll, 1 + ll + n)), 1 + ll + n)
    ELSE IF b0 <= 247 THEN
        LET n == b0 - 192 IN
        IF Len(bs) < 1 + n THEN DecodeFail ELSE DecodeList(bs, 2, n)
    ELSE
        LET ll == b0 - 247
            n == LongLength(bs, ll) IN
        IF n < 0 THEN DecodeFail ELSE DecodeList(bs, 2 + ll, n)

\* rlp.decode: the whole input is exactly one item
rlp_decode(bs) ==
    LET r == decode_item(bs) IN
    IF r.ok /\ r.used = Len(bs) THEN r ELSE DecodeFail

(***************************************************************************)
(* The transaction records (dataclasses).  Fields(cls) is the declared     *)
(* field list of the class: each field's name and annotated type, in       *)
(* declaration order.                                                      *)
(***************************************************************************)
LegacyTransactionFields ==
    << <<"nonce", "U256">>, <<"gas_price", "Uint">>, <<"gas", "Uint">>,
       <<"to", "Bytes0|Address">>, <<"value", "U256">>, <<"data", "Bytes">>,
       <<"v", "U256">>, <<"r", "U256">>, <<"s", "U256">> >>

AccessListTransactionFields ==
    << <<"chain_id", "U64">>, <<"nonce", "U256">>, <<"gas_price", "Uint">>,
       <<"gas", "Uint">>, <<"to", "Bytes0|Address">>, <<"value", "U256">>,
       <<"data", "Bytes">>, <<"access_list", "AccessList">>,
       <<"y_parity", "U256">>, <<"r", "U256">>, <<"s", "U256">> >>

FeeMarketTransactionFields ==
    << <<"chain_id", "U64">>, <<"nonce", "U256">>,
       <<"max_priority_fee_per_gas", "Uint">>, <<"max_fee_per_gas", "Uint">>,
       <<"gas", "Uint">>, <<"to", "Bytes0|Address">>, <<"value", "U256">>,
       <<"data", "Bytes">>, <<"access_list", "AccessList">>,
       <<"y_parity", "U256">>, <<"r", "U256">>, <<"s", "U256">> >>

BlobTransactionFields ==
    << <<"chain_id", "U64">>, <<"nonce", "U256">>,
       <<"max_priority_fee_per_gas", "Uint">>, <<"max_fee_per_gas", "Uint">>,
       <<"gas", "Uint">>, <<"to", "Address">>, <<"value", "U256">>,
       <<"data", "Bytes">>, <<"access_list", "AccessList">>,
       <<"max_fee_per_blob_gas", "U256">>,
       <<"blob_versioned_hashes", "VersionedHashes">>,
       <<"y_parity", "U256">>, <<"r", "U256">>, <<"s", "U256">> >>

\* the members of the union Transaction
Transaction ==
    {"LegacyTransaction", "AccessListTransaction", "FeeMarketTransaction",
     "BlobTransaction"}

Fields(cls) ==
    CASE cls = "LegacyTransaction" -> LegacyTransactionFields
      [] cls = "AccessListTransaction" -> AccessListTransactionFields
      [] cls = "FeeMarketTransaction" -> FeeMarketTransactionFields
      [] cls = "BlobTransaction" -> BlobTransactionFields

FieldNames(cls) == {Fields(cls)[i][1] : i \in 1..Len(Fields(cls))}

\* the generated __init__ of the dataclass: the positional arguments are
\* stored in the declared fields as given; no argument is checked against
\* the field's annotation
NewRecord(cls, args) ==
    [n \in FieldNames(cls) \cup {"type"} |->
        IF n = "type" THEN cls
        ELSE args[CHOOSE i \in 1..Len(Fields(cls)) : Fields(cls)[i][1] = n]]

\* a Bytes object
Bytes(bs) == [type |-> "Bytes", bytes |-> bs]

\* an object that is neither a byte string nor one of the four records
NotATransaction == [type |-> "object"]

\* None
None == [type |-> "NoneType"]

\* isinstance(v, cls)
isinstance(v, cls) == v.type = cls

(***************************************************************************)
(* rlp.encode of a value: by the value's runtime kind.  The kind of a      *)
(* field value is the kind its annotation names (a Bytes0 stored in an     *)
(* Address field is still a byte string).                                  *)
(***************************************************************************)
IsUintType(ftype) == ftype \in {"U64", "U256", "Uint"}

IsBytesType(ftype) == ftype \in {"Bytes0|Address", "Address", "Bytes"}

\* the RLP item of a field value
FieldItem(ftype, v) ==
    CASE IsUintType(ftype) -> BytesItem(to_be_bytes(v))
      [] IsBytesType(ftype) -> BytesItem(v)
      [] ftype = "VersionedHashes" ->
            ListItem([i \in 1..Len(v) |-> BytesItem(v[i])])
      [] ftype = "AccessList" ->
            ListItem([i \in 1..Len(v) |->
                ListItem(<< BytesItem(v[i][1]),
                            ListItem([j \in 1..Len(v[i][2]) |->
                                        BytesItem(v[i][2][j])]) >>)])

\* the RLP item of a record: the list of its fields in declared order
RecordItem(t) ==
    ListItem([i \in 1..Len(Fields(t.type)) |->
                FieldItem(Fields(t.type)[i][2], t[Fields(t.type)[i][1]])])

\* rlp.encode(tx) for a dataclass instance
rlp_encode_record(t) == rlp_encode(RecordItem(t))

(***************************************************************************)
(* rlp.decode_to: an item read under an annotated type.                    *)
(***************************************************************************)
IsFixedBytes(item, n) == item.k = "bytes" /\ Len(item.b) = n

\* whether the item has the shape of the annotated type
Fits(ftype, item) ==
    CASE IsUintType(ftype) -> item.k = "bytes" /\ from_be_bytes(ftype, item.b).ok
      [] ftype = "Bytes" -> item.k = "bytes"
      [] ftype = "Address" -> IsFixedBytes(item, 20)
      [] ftype = "Bytes0|Address" -> IsFixedBytes(item, 0) \/ IsFixedBytes(item, 20)
      [] ftype = "VersionedHashes" ->
            item.k = "list" /\ \A i \in 1..Len(item.l) : IsFixedBytes(item.l[i], 32)
      [] ftype = "AccessList" ->
            /\ item.k = "list"
            /\ \A i \in 1..Len(item.l) :
                /\ item.l[i].k = "list"
                /\ Len(item.l[i].l) = 2
                /\ IsFixedBytes(item.l[i].l[1], 20)
                /\ item.l[i].l[2].k = "list"
                /\ \A j \in 1..Len(item.l[i].l[2].l) :
                      IsFixedBytes(item.l[i].l[2].l[j], 32)

\* the value of an item that fits the annotated type
FieldValue(ftype, item) ==
    CASE IsUintType(ftype) -> from_be_bytes(ftype, item.b).v
      [] IsBytesType(ftype) -> item.b
      [] ftype = "VersionedHashes" -> [i \in 1..Len(item.l) |-> item.l[i].b]
      [] ftype = "AccessList" ->
            [i \in 1..Len(item.l) |->
                << item.l[i].l[1].b,
                   [j \in 1..Len(item.l[i].l[2].l) |-> item.l[i].l[2].l[j].b] >>]

\* _decode_to(cls, item) for a dataclass: a list with exactly the declared
\* number of fields, each of its annotated type, in declared order
decode_to_record(cls, item) ==
    IF /\ item.k = "list"
       /\ Len(item.l) = Len(Fields(cls))
       /\ \A i \in 1..Len(item.l) : Fits(Fields(cls)[i][2], item.l[i])
    THEN [ok |-> TRUE,
          v |-> NewRecord(cls, [i \in 1..Len(item.l) |->
                                  FieldValue(Fields(cls)[i][2], item.l[i])])]
    ELSE [ok |-> FALSE, v |-> None]

\* rlp.decode_to(cls, encoded_data)
rlp_decode_to(cls, bs) ==
    LET r == rlp_decode(bs) IN
    IF r.ok THEN decode_to_record(cls, r.item) ELSE [ok |-> FALSE, v |-> None]

(***************************************************************************)
(* Exceptions.                                                             *)
(***************************************************************************)
\* the base class of an exception class
ExceptionBase(e) ==
    CASE e = "RLPDecodingError" -> "InvalidBlock"
      [] e = "InvalidBlock" -> "EthereumException"
      [] e = "EthereumException" -> "Exception"
      [] e = "IndexError" -> "LookupError"
      [] e = "LookupError" -> "Exception"
      [] e = "Exception" -> "BaseException"
      [] OTHER -> "object"

RECURSIVE issubclass(_, _)
\* issubclass(e, handler): an `except handler` clause handles a raised e
issubclass(e, handler) ==
    IF e = handler THEN TRUE
    ELSE IF e = "object" THEN FALSE
    ELSE issubclass(ExceptionBase(e), handler)

\* The outcome of a call: the value returned or the exception raised, and
\* the calls it made to the structural codec.
Return(v, calls) == [kind |-> "return", value |-> v, exc |-> "", codec |-> calls]
Raise(e, calls) == [kind |-> "raise", value |-> None, exc |-> e, codec |-> calls]

\* the outcome of a call to rlp.decode_to made from decode_transaction
DecodeTo(cls, bs) ==
    LET r == rlp_decode_to(cls, bs) IN
    IF r.ok THEN Return(r.v, <<"decode_to">>)
    ELSE Raise("RLPDecodingError", <<"decode_to">>)

(***************************************************************************)
(* encode_transaction and decode_transaction.                              *)
(***************************************************************************)
\* encode_transaction with the Legacy branch returning the list encoding
encode_transaction_legacy_bytes(t) ==
    IF isinstance(t, "LegacyTransaction")
    THEN Return(Bytes(rlp_encode_record(t)), <<"encode">>)
    ELSE IF isinstance(t, "AccessListTransaction")
         THEN Return(Bytes(<<1>> \o rlp_encode_record(t)), <<"encode">>)
    ELSE IF isinstance(t, "FeeMarketTransaction")
         THEN Return(Bytes(<<2>> \o rlp_encode_record(t)), <<"encode">>)
    ELSE IF isinstance(t, "BlobTransaction")
         THEN Return(Bytes(<<3>> \o rlp_encode_record(t)), <<"encode">>)
    ELSE Raise("Exception", <<>>)

\* encode_transaction with the type bytes of FeeMarket and Blob exchanged
encode_transaction_tags_exchanged(t) ==
    IF isinstance(t, "LegacyTransaction") THEN Return(t, <<>>)
    ELSE IF isinstance(t, "AccessListTransaction")
         THEN Return(Bytes(<<1>> \o rlp_encode_record(t)), <<"encode">>)
    ELSE IF isinstance(t, "FeeMarketTransaction")
         THEN Return(Bytes(<<3>> \o rlp_encode_record(t)), <<"encode">>)
    ELSE IF isinstance(t, "BlobTransaction")
         THEN Return(Bytes(<<2>> \o rlp_encode_record(t)), <<"encode">>)
    ELSE Raise("Exception", <<>>)

\* encode_transaction raising InvalidBlock for a value outside the union
encode_transaction_raises_invalid_block(t) ==
    IF isinstance(t, "LegacyTransaction") THEN Return(t, <<>>)
    ELSE IF isinstance(t, "AccessListTransaction")
         THEN Return(Bytes(<<1>> \o rlp_encode_record(t)), <<"encode">>)
    ELSE IF isinstance(t, "FeeMarketTransaction")
         THEN Return(Bytes(<<2>> \o rlp_encode_record(t)), <<"encode">>)
    ELSE IF isinstance(t, "BlobTransaction")
         THEN Return(Bytes(<<3>> \o rlp_encode_record(t)), <<"encode">>)
    ELSE Raise("InvalidBlock", <<>>)

encode_transaction(t) ==
    IF isinstance(t, "LegacyTransaction") THEN Return(t, <<>>)
    ELSE IF isinstance(t, "AccessListTransaction")
         THEN Return(Bytes(<<1>> \o rlp_encode_record(t)), <<"encode">>)
    ELSE IF isinstance(t, "FeeMarketTransaction")
         THEN Return(Bytes(<<2>> \o rlp_encode_record(t)), <<"encode">>)
    ELSE IF isinstance(t, "BlobTransaction")
         THEN Return(Bytes(<<3>> \o rlp_encode_record(t)), <<"encode">>)
    ELSE Raise("Exception", <<>>)

\* decode_transaction reading a Blob envelope under the FeeMarket layout
decode_transaction_blob_as_fee_market(t) ==
    IF isinstance(t, "Bytes") THEN
        IF t.bytes = <<>> THEN Raise("IndexError", <<>>)
        ELSE IF t.bytes[1] = 1
             THEN DecodeTo("AccessListTransaction", Tail(t.bytes))
        ELSE IF t.bytes[1] = 2
             THEN DecodeTo("FeeMarketTransaction", Tail(t.bytes))
        ELSE IF t.bytes[1] = 3
             THEN DecodeTo("FeeMarketTransaction", Tail(t.bytes))
        ELSE Raise("InvalidBlock", <<>>)
    ELSE Return(t, <<>>)

\* decode_transaction with the first test written `tx[0] <= 1`
decode_transaction_zero_as_access_list(t) ==
    IF isinstance(t, "Bytes") THEN
        IF t.bytes = <<>> THEN Raise("IndexError", <<>>)
        ELSE IF t.bytes[1] <= 1
             THEN DecodeTo("AccessListTransaction", Tail(t.bytes))
        ELSE IF t.bytes[1] = 2
             THEN DecodeTo("FeeMarketTransaction", Tail(t.bytes))
        ELSE IF t.bytes[1] = 3
             THEN DecodeTo("BlobTransaction", Tail(t.bytes))
        ELSE Raise("InvalidBlock", <<>>)
    ELSE Return(t, <<>>)

\* decode_transaction passing a record through the codec instead of
\* returning it
decode_transaction_recodes_record(t) ==
    IF isinstance(t, "Bytes") THEN
        IF t.bytes = <<>> THEN Raise("IndexError", <<>>)
        ELSE IF t.bytes[1] = 1
             THEN DecodeTo("AccessListTransaction", Tail(t.bytes))
        ELSE IF t.bytes[1] = 2
             THEN DecodeTo("FeeMarketTransaction", Tail(t.bytes))
        ELSE IF t.bytes[1] = 3
             THEN DecodeTo("BlobTransaction", Tail(t.bytes))
        ELSE Raise("InvalidBlock", <<>>)
    ELSE IF isinstance(t, "LegacyTransaction")
         THEN LET r == rlp_decode_to("LegacyTransaction", rlp_encode_record(t)) IN
              IF r.ok THEN Return(r.v, <<"encode", "decode_to">>)
              ELSE Raise("RLPDecodingError", <<"encode", "decode_to">>)
    ELSE Return(t, <<>>)

\* decode_transaction reading the payload from the type byte on (`tx[0:]`)
decode_transaction_keeps_type_byte(t) ==
    IF isinstance(t, "Bytes") THEN
        IF t.bytes = <<>> THEN Raise("IndexError", <<>>)
        ELSE IF t.bytes[1] = 1
             THEN DecodeTo("AccessListTransaction", t.bytes)
        ELSE IF t.bytes[1] = 2
             THEN DecodeTo("FeeMarketTransaction", t.bytes)
        ELSE IF t.bytes[1] = 3
             THEN DecodeTo("BlobTransaction", t.bytes)
        ELSE Raise("InvalidBlock", <<>>)
    ELSE Return(t, <<>>)

decode_transaction(t) ==
    IF isinstance(t, "Bytes") THEN
        IF t.bytes = <<>> THEN Raise("IndexError", <<>>)
        ELSE IF t.bytes[1] = 1
             THEN DecodeTo("AccessListTransaction", Tail(t.bytes))
        ELSE IF t.bytes[1] = 2
             THEN DecodeTo("FeeMarketTransaction", Tail(t.bytes))
        ELSE IF t.bytes[1] = 3
             THEN DecodeTo("BlobTransaction", Tail(t.bytes))
        ELSE Raise("InvalidBlock", <<>>)
    ELSE Return(t, <<>>)

(***************************************************************************)
(* The values the callers supply.                                          *)
(***************************************************************************)
\* every byte string over `alphabet` of at most n bytes
ByteStrings(alphabet, n) == UNION {[1..k -> alphabet] : k \in 0..n}

\* a 20-byte address, a 32-byte storage key, a 32-byte versioned hash
SomeAddress == [i \in 1..20 |-> IF i = 20 THEN 170 ELSE 0]
SomeKey == [i \in 1..32 |-> IF i = 32 THEN 7 ELSE 0]
SomeHash == [i \in 1..32 |-> IF i = 1 THEN 1 ELSE 187]

\* the largest U256: thirty-two limbs of 255
U256Max == [i \in 1..32 |-> 255]

NonceValues == {Limbs(0), Limbs(1)}
ToValues == {<<>>, SomeAddress}
DataValues == ByteStrings({0, 128}, MaxData)
AccessListValues ==
    {<<>>} \cup {<< <<SomeAddress, [j \in 1..k |-> SomeKey]>> >> : k \in 0..MaxKeys}
SignatureValues == {Limbs(1), U256Max}
HashesValues == {<<>>, <<SomeHash>>}
RawValues == ByteStrings({0, 1, 2, 3, 4, 128, 192, 255}, MaxRaw)

NoOutcome == [kind |-> "none", value |-> None, exc |-> "", codec |-> <<>>]
NoRoute == [how |-> "none", i |-> 0, j |-> 0]
Route(how) == [how |-> how, i |-> 0, j |-> 0]

\* The byte string `bs` (a type byte and a list payload) with the encoded
\* items at positions i and j of the payload exchanged.
SwapEncodedItems(bs, i, j) ==
    LET items == rlp_decode(Tail(bs)).item.l
        swapped == [k \in 1..Len(items) |->
                      IF k = i THEN items[j] ELSE IF k = j THEN items[i] ELSE items[k]]
    IN  <<Head(bs)>> \o encode_sequence(swapped)

(***************************************************************************)
(* The state machine: a caller constructs a value, encodes it, and a       *)
(* receiver decodes what it is handed.                                     *)
(***************************************************************************)
Init ==
    /\ pc = "start"
    /\ tx = None
    /\ enc = NoOutcome
    /\ arg = None
    /\ via = NoRoute
    /\ dec = NoOutcome

\* LegacyTransaction(...)
ConstructLegacy ==
    /\ pc = "start"
    /\ \E nonce \in NonceValues, to \in ToValues, data \in DataValues,
          s \in SignatureValues :
        tx' = NewRecord("LegacyTransaction",
                <<nonce, Limbs(1), Limbs(21000), to, Limbs(0), data,
                  Limbs(27), Limbs(1), s>>)
    /\ pc' = "constructed"
    /\ UNCHANGED <<enc, arg, via, dec>>

\* AccessListTransaction(...)
ConstructAccessList ==
    /\ pc = "start"
    /\ \E nonce \in NonceValues, to \in ToValues, data \in DataValues,
          access_list \in AccessListValues, s \in SignatureValues :
        tx' = NewRecord("AccessListTransaction",
                <<Limbs(1), nonce, Limbs(1), Limbs(21000), to, Limbs(0), data,
                  access_list, Limbs(1), Limbs(1), s>>)
    /\ pc' = "constructed"
    /\ UNCHANGED <<enc, arg, via, dec>>

\* FeeMarketTransaction(...)
ConstructFeeMarket ==
    /\ pc = "start"
    /\ \E nonce \in NonceValues, to \in ToValues, data \in DataValues,
          access_list \in AccessListValues, s \in SignatureValues :
        tx' = NewRecord("FeeMarketTransaction",
                <<Limbs(1), nonce, Limbs(1), Limbs(100), Limbs(21000), to,
                  Limbs(0), data, access_list, Limbs(0), Limbs(1), s>>)
    /\ pc' = "constructed"
    /\ UNCHANGED <<enc, arg, via, dec>>

\* BlobTransaction(...): `to` takes whatever byte string the caller passes
ConstructBlob ==
    /\ pc = "start"
    /\ \E nonce \in NonceValues, to \in ToValues, data \in DataValues,
          access_list \in AccessListValues, hashes \in HashesValues,
          s \in SignatureValues :
        tx' = NewRecord("BlobTransaction",
                <<Limbs(1), nonce, Limbs(1), Limbs(100), Limbs(21000), to,
                  Limbs(0), data, access_list, Limbs(1), hashes,
                  Limbs(1), Limbs(1), s>>)
    /\ pc' = "constructed"
    /\ UNCHANGED <<enc, arg, via, dec>>

\* the caller holds a value that is none of the four records
HoldOther ==
    /\ pc = "start"
    /\ tx' = NotATransaction
    /\ pc' = "constructed"
    /\ UNCHANGED <<enc, arg, via, dec>>

\* encode_transaction(tx)
EncodeTransaction ==
    /\ pc = "constructed"
    /\ enc' = encode_transaction(tx)
    /\ pc' = "encoded"
    /\ UNCHANGED <<tx, arg, via, dec>>

\* decode_transaction(encode_transaction(tx))
DecodeEncoded ==
    /\ pc = "encoded"
    /\ enc.kind = "return"
    /\ arg' = enc.value
    /\ via' = Route("encode")
    /\ dec' = decode_transaction(enc.value)
    /\ pc' = "decoded"
    /\ UNCHANGED <<tx, enc>>

\* decode_transaction of the envelope with two encoded fields exchanged
DecodeSwapped ==
    /\ pc = "encoded"
    /\ enc.kind = "return"
    /\ isinstance(enc.value, "Bytes")
    /\ \E i, j \in 1..Len(Fields(tx.type)) :
        /\ i < j
        /\ arg' = Bytes(SwapEncodedItems(enc.value.bytes, i, j))
        /\ via' = [how |-> "swap", i |-> i, j |-> j]
    /\ dec' = decode_transaction(arg')
    /\ pc' = "decoded"
    /\ UNCHANGED <<tx, enc>>

\* decode_transaction(tx): the caller passes the value it holds
DecodeRecord ==
    /\ pc = "constructed"
    /\ arg' = tx
    /\ via' = Route("record")
    /\ dec' = decode_transaction(tx)
    /\ pc' = "decoded"
    /\ UNCHANGED <<tx, enc>>

\* decode_transaction(raw): bytes from the network
DecodeRaw ==
    /\ pc = "start"
    /\ \E raw \in RawValues : arg' = Bytes(raw)
    /\ via' = Route("raw")
    /\ dec' = decode_transaction(arg')
    /\ pc' = "decoded"
    /\ UNCHANGED <<tx, enc>>

Next ==
    \/ ConstructLegacy
    \/ ConstructAccessList
    \/ ConstructFeeMarket
    \/ ConstructBlob
    \/ HoldOther
    \/ EncodeTransaction
    \/ DecodeEncoded
    \/ DecodeSwapped
    \/ DecodeRecord
    \/ DecodeRaw

Spec == Init /\ [][Next]_vars

(***************************************************************************)
(* Properties.                                                             *)
(***************************************************************************)
TypedTransaction ==
    {"AccessListTransaction", "FeeMarketTransaction", "BlobTransaction"}

\* a Uint value in normal form that fits the width of its type
IsUint(ftype, v) ==
    /\ Len(v) = 0 \/ v[Len(v)] # 0
    /\ ByteWidth(ftype) = 0 \/ Len(v) <= ByteWidth(ftype)

\* the value is one its annotation admits
Admits(ftype, v) ==
    CASE IsUintType(ftype) -> IsUint(ftype, v)
      [] ftype = "Bytes" -> TRUE
      [] ftype = "Address" -> Len(v) = 20
      [] ftype = "Bytes0|Address" -> Len(v) \in {0, 20}
      [] ftype = "VersionedHashes" -> \A i \in 1..Len(v) : Len(v[i]) = 32
      [] ftype = "AccessList" ->
            \A i \in 1..Len(v) :
                /\ Len(v[i][1]) = 20
                /\ \A j \in 1..Len(v[i][2]) : Len(v[i][2][j]) = 32

\* a record of the union whose every field holds a value of its annotated type
WellFormed(t) ==
    /\ t.type \in Transaction
    /\ \A i \in 1..Len(Fields(t.type)) :
          Admits(Fields(t.type)[i][2], t[Fields(t.type)[i][1]])

\* C1: decoding the encoding of a well-formed transaction of any of the
\* four variants returns a record equal to it in variant and in every field.
RoundTrip ==
    (pc = "decoded" /\ via.how = "encode" /\ WellFormed(tx))
        => (dec.kind = "return" /\ dec.value = tx)

\* a Blob transaction with an access list and a hash went round the codec
RoundTripWitness ==
    /\ pc = "decoded"
    /\ via.how = "encode"
    /\ isinstance(tx, "BlobTransaction")
    /\ WellFormed(tx)
    /\ tx.access_list # <<>>
    /\ tx.blob_versioned_hashes # <<>>
    /\ isinstance(arg, "Bytes")
    /\ dec.kind = "return"
    /\ dec.value = tx

U(v) == BytesItem(to_be_bytes(v))
B(v) == BytesItem(v)

\* the list encoding of the nine Legacy fields, written out in order
LegacyEnvelope(t) ==
    encode_sequence(<<U(t.nonce), U(t.gas_price), U(t.gas), B(t.to), U(t.value),
                      B(t.data), U(t.v), U(t.r), U(t.s)>>)

\* C2 (as stated): encode_transaction of a Legacy transaction returns the
\* byte string that is the list encoding of its nine fields, not the record.
LegacyEncodesToBytes ==
    (pc = "encoded" /\ isinstance(tx, "LegacyTransaction"))
        => (enc.kind = "return" /\ enc.value = Bytes(LegacyEnvelope(tx)))

\* C2 (amended): encode_transaction of a Legacy transaction returns the
\* record itself, unchanged, without calling the codec and without a type byte.
LegacyEncodeReturnsRecord ==
    (pc = "encoded" /\ isinstance(tx, "LegacyTransaction"))
        => (enc = Return(tx, <<>>) /\ ~isinstance(enc.value, "Bytes"))

LegacyEncodeWitness ==
    /\ pc = "encoded"
    /\ isinstance(tx, "LegacyTransaction")
    /\ tx.to = SomeAddress
    /\ enc.kind = "return"
    /\ enc.value = tx

\* the discriminant byte of a typed variant
Discriminant(cls) ==
    CASE cls = "AccessListTransaction" -> 1
      [] cls = "FeeMarketTransaction" -> 2
      [] cls = "BlobTransaction" -> 3

AccessListItems(al) ==
    ListItem([i \in 1..Len(al) |->
        ListItem(<<B(al[i][1]), ListItem([j \in 1..Len(al[i][2]) |-> B(al[i][2][j])])>>)])

\* the list encoding of a typed transaction's fields, written out in the
\* order of the variant's table row
TypedPayload(t) ==
    CASE t.type = "AccessListTransaction" ->
            encode_sequence(<<U(t.chain_id), U(t.nonce), U(t.gas_price), U(t.gas),
                B(t.to), U(t.value), B(t.data), AccessListItems(t.access_list),
                U(t.y_parity), U(t.r), U(t.s)>>)
      [] t.type = "FeeMarketTransaction" ->
            encode_sequence(<<U(t.chain_id), U(t.nonce),
                U(t.max_priority_fee_per_gas), U(t.max_fee_per_gas), U(t.gas),
                B(t.to), U(t.value), B(t.data), AccessListItems(t.access_list),
                U(t.y_parity), U(t.r), U(t.s)>>)
      [] t.type = "BlobTransaction" ->
            encode_sequence(<<U(t.chain_id), U(t.nonce),
                U(t.max_priority_fee_per_gas), U(t.max_fee_per_gas), U(t.gas),
                B(t.to), U(t.value), B(t.data), AccessListItems(t.access_list),
                U(t.max_fee_per_blob_gas),
                ListItem([i \in 1..Len(t.blob_versioned_hashes) |->
                            B(t.blob_versioned_hashes[i])]),
                U(t.y_parity), U(t.r), U(t.s)>>)

\* C3: the encoding of an AccessList, FeeMarket or Blob transaction is a byte
\* string whose first byte is 1, 2 or 3 and whose other bytes are the list
\* encoding of the fields in declared order; the type byte is not part of it.
DiscriminantCorrectness ==
    (pc = "encoded" /\ tx.type \in TypedTransaction)
        => /\ enc.kind = "return"
           /\ isinstance(enc.value, "Bytes")
           /\ Head(enc.value.bytes) = Discriminant(tx.type)
           /\ Tail(enc.value.bytes) = TypedPayload(tx)
           /\ rlp_decode(Tail(enc.value.bytes)).ok
           /\ ~rlp_decode(enc.value.bytes).ok

DiscriminantWitness ==
    /\ pc = "encoded"
    /\ isinstance(tx, "FeeMarketTransaction")
    /\ tx.access_list # <<>>
    /\ enc.kind = "return"
    /\ Head(enc.value.bytes) = 2
    /\ Len(enc.value.bytes) > 57

\* C4: a byte string whose first byte is 0 or at least 4 makes
\* decode_transaction raise InvalidBlock without a call to the codec.
RejectsUnknownType ==
    (/\ pc = "decoded"
     /\ isinstance(arg, "Bytes")
     /\ Len(arg.bytes) > 0
     /\ (arg.bytes[1] = 0 \/ arg.bytes[1] >= 4))
        => dec = Raise("InvalidBlock", <<>>)

RejectsUnknownTypeWitness ==
    /\ pc = "decoded"
    /\ isinstance(arg, "Bytes")
    /\ Len(arg.bytes) = 2
    /\ arg.bytes[1] = 0
    /\ arg.bytes[2] = 192
    /\ dec.kind = "raise"
    /\ dec.exc = "InvalidBlock"

\* C5 (as stated): decode_transaction returns its input unchanged only when
\* the input is a Legacy record; an input that is neither a byte string nor a
\* Legacy record is refused.
ClosedUnionAtDecode ==
    (/\ pc = "decoded"
     /\ ~isinstance(arg, "Bytes")
     /\ ~isinstance(arg, "LegacyTransaction"))
        => (dec.kind = "raise" /\ dec.value # arg)

\* C6: a Legacy record handed to decode_transaction comes back unchanged,
\* no codec call is made, and decoding the result again gives the same.
LegacyIdempotence ==
    (pc = "decoded" /\ isinstance(arg, "LegacyTransaction"))
        => /\ dec = Return(arg, <<>>)
           /\ dec.value = tx
           /\ decode_transaction(dec.value) = dec

LegacyIdempotenceWitness ==
    /\ pc = "decoded"
    /\ via.how = "record"
    /\ isinstance(arg, "LegacyTransaction")
    /\ arg.data # <<>>
    /\ dec.kind = "return"
    /\ dec.value = arg

\* the encoded item of the field at position i of a record
EncodedField(t, i) ==
    rlp_encode(FieldItem(Fields(t.type)[i][2], t[Fields(t.type)[i][1]]))

BlobToConstraint ==
    /\ isinstance(tx, "BlobTransaction") => Len(tx.to) = 20
    /\ (/\ pc = "encoded"
        /\ enc.kind = "return"
        /\ isinstance(enc.value, "Bytes")
        /\ Head(enc.value.bytes) = 3) => Len(tx.to) = 20

\* C9: encode_transaction of a value outside the union raises, and what it
\* raises is neither InvalidBlock, which decode_transaction raises for an
\* unknown type byte, nor handled by a handler of InvalidBlock.
DistinctErrorKinds ==
    (pc = "encoded" /\ tx.type \notin Transaction)
        => /\ enc.kind = "raise"
           /\ enc.exc # decode_transaction(Bytes(<<4>>)).exc
           /\ ~issubclass(enc.exc, decode_transaction(Bytes(<<4>>)).exc)

DistinctErrorKindsWitness ==
    /\ pc = "encoded"
    /\ tx = NotATransaction
    /\ enc.kind = "raise"
    /\ decode_transaction(Bytes(<<4>>)).kind = "raise"

\* C10 (as stated): for every byte string, the empty one included,
\* decode_transaction returns an AccessList, FeeMarket or Blob transaction
\* or raises the invalid-envelope error, and nothing else.
DecodeTotalOverBytes ==
    (pc = "decoded" /\ isinstance(arg, "Bytes"))
        => \/ dec.kind = "return" /\ dec.value.type \in TypedTransaction
           \/ dec.kind = "raise" /\ issubclass(dec.exc, "InvalidBlock")

=============================================================================
